---- MODULE Spec2Model ----
(***************************************************************************)
(* Counter-consistency and balance-ledger handlers of the social-media     *)
(* backend, as state machines over a read-committed relational store.      *)
(*                                                                         *)
(* Every `await` of a handler is one step.  Statements issued on `tx`      *)
(* write into the write set of the calling request and become visible at   *)
(* its commit; statements issued on `db` are autocommitted.  A statement   *)
(* that writes a row waits while another open transaction holds a pending  *)
(* write on that row, and then acts on the latest committed version.       *)
(* Timestamps other than premium_expires_at, row ids and descriptive text  *)
(* columns are not modelled.                                               *)
(***************************************************************************)
EXTENDS Integers, FiniteSets, Sequences, TLC

VARIABLES users, posts, likes, follows, shares, comments, transactions,
          premiumPackages, notifications,
          tx, pc, call, loc, result, now, calls, faults

dbVars == <<users, posts, likes, follows, shares, comments, transactions,
           premiumPackages, notifications>>
procVars == <<tx, pc, call, loc, result>>
envVars == <<now, calls, faults>>
vars == <<dbVars, procVars, envVars>>

-----------------------------------------------------------------------------
(* Bounds of the model.                                                    *)

\* concurrent requests
NumProcs == 2
\* calls started in one behaviour
MaxCalls == 2
\* statements the store rejects in one behaviour
MaxFaults == 1
\* the clock, in days
MaxTime == 2
\* balance of every user at the start, in cents
InitialBalance == 20
\* price of package 1, in cents, and its duration in days
PackagePrice == 10
PackageDays == 2

Procs == 1..NumProcs
\* the rows of the users, posts and premium_packages tables, by id
UserIds == {1, 2}
PostIds == {1}
PackageIds == {1, 2}
\* an id with no row, as in the handlers' tests
NoSuchId == 999
\* ids a request may name: the rows that exist and the id with no row
UserArgs == UserIds \cup {NoSuchId}
PostArgs == PostIds \cup {NoSuchId}
PackageArgs == PackageIds \cup {NoSuchId}
\* amounts of a top-up, in thousandths of the currency unit: 0.004, 0.016
\* and 0.10.  None lies half way between two cents, so the double
\* arithmetic of the handlers rounds as exact arithmetic does.
Amounts == {4, 16, 100}

-----------------------------------------------------------------------------
(* The store.                                                              *)

EmptyRows == [k \in {} |-> 0]

\* The write set of a request with no open transaction.
NoTx == [open |-> FALSE, users |-> EmptyRows, posts |-> EmptyRows,
         likes |-> EmptyRows, follows |-> EmptyRows, shares |-> EmptyRows,
         comments |-> <<>>, transactions |-> <<>>]

NoLoc == [user |-> <<>>, post |-> <<>>, pkg |-> <<>>, now |-> 0, results |-> {}]

\* What request p reads: its own pending write, else the committed row.
Read(pending, committed, k) ==
    IF k \in DOMAIN pending THEN pending[k] ELSE committed[k]

\* Row k of table tbl carries a pending write of another open transaction.
RowLocked(p, tbl, k) == \E q \in Procs \ {p} : k \in DOMAIN tx[q][tbl]

\* Number of rows of a relationship table (pair |-> number of rows) whose
\* second column is t, resp. whose first column is a.
RECURSIVE SumOver(_, _)
SumOver(f, S) ==
    IF S = {} THEN 0
    ELSE LET k == CHOOSE x \in S : TRUE IN f[k] + SumOver(f, S \ {k})

RowsWithTarget(rel, t) == SumOver(rel, {k \in DOMAIN rel : k[2] = t})
RowsWithActor(rel, a) == SumOver(rel, {k \in DOMAIN rel : k[1] = a})

\* COMMIT of p's transaction: its pending writes replace the committed rows.
Commit(p) ==
    /\ users' = tx[p].users @@ users
    /\ posts' = tx[p].posts @@ posts
    /\ likes' = tx[p].likes @@ likes
    /\ follows' = tx[p].follows @@ follows
    /\ shares' = tx[p].shares @@ shares
    /\ comments' = comments \o tx[p].comments
    /\ transactions' = transactions \o tx[p].transactions
    /\ tx' = [tx EXCEPT ![p] = NoTx]
    /\ UNCHANGED <<premiumPackages, notifications>>

\* ROLLBACK of p's transaction: an error thrown inside db.transaction.
Rollback(p) ==
    /\ tx' = [tx EXCEPT ![p] = NoTx]
    /\ UNCHANGED dbVars

\* The handler of p returns r (or throws r) and the request ends.
Finish(p, r) ==
    /\ pc' = [pc EXCEPT ![p] = "done"]
    /\ result' = [result EXCEPT ![p] = r]

Goto(p, label) ==
    /\ pc' = [pc EXCEPT ![p] = label]
    /\ UNCHANGED result

\* A request arrives at an idle worker.
Begin(p, op, a, b, label) ==
    /\ pc[p] \in {"idle", "done"}
    /\ calls < MaxCalls
    /\ calls' = calls + 1
    /\ call' = [call EXCEPT ![p] = [op |-> op, a |-> a, b |-> b]]
    /\ loc' = [loc EXCEPT ![p] = NoLoc]
    /\ pc' = [pc EXCEPT ![p] = label]
    /\ result' = [result EXCEPT ![p] = "pending"]
    /\ UNCHANGED <<dbVars, tx, now, faults>>

Quiescent == \A p \in Procs : ~tx[p].open

\* A unique index on a pair of columns rejects an insert when a row with the
\* same pair exists.  UniqueBroken: an index that is not unique.
UniqueBroken(n) == FALSE
UniqueViolation(n) == n >= 1

DuplicateKey == "duplicate key value violates unique constraint"

-----------------------------------------------------------------------------
(* createLike                                                              *)

LikeKey(p) == <<call[p].a, call[p].b>>

Call_createLike(p) ==
    \E u \in UserArgs, po \in PostArgs :
        Begin(p, "createLike", u, po, "createLike_userExists")

createLike_userExists(p) ==
    /\ pc[p] = "createLike_userExists"
    /\ IF call[p].a \in DOMAIN users
         THEN Goto(p, "createLike_postExists")
         ELSE Finish(p, "User not found")
    /\ UNCHANGED <<dbVars, tx, call, loc, envVars>>

createLike_postExists(p) ==
    /\ pc[p] = "createLike_postExists"
    /\ IF call[p].b \in DOMAIN posts /\ posts[call[p].b].is_active
         THEN Goto(p, "createLike_existingLike")
         ELSE Finish(p, "Active post not found")
    /\ UNCHANGED <<dbVars, tx, call, loc, envVars>>

createLike_existingLike(p) ==
    /\ pc[p] = "createLike_existingLike"
    /\ IF likes[LikeKey(p)] > 0
         THEN Finish(p, "User has already liked post")
         ELSE Goto(p, "createLike_insert")
    /\ UNCHANGED <<dbVars, tx, call, loc, envVars>>

\* sql`likes_count + 1`, and an increment applied twice
LikesCountPlusTwo(n) == n + 2
likes_count_plus_1(n) == n + 1

\* db.transaction begins; tx.insert(likesTable)
createLike_insert(p) ==
    /\ pc[p] = "createLike_insert"
    /\ ~RowLocked(p, "likes", LikeKey(p))
    /\ IF UniqueViolation(likes[LikeKey(p)])
         THEN /\ Finish(p, DuplicateKey)
              /\ UNCHANGED tx
         ELSE /\ tx' = [tx EXCEPT ![p].open = TRUE,
                                  ![p].likes = LikeKey(p) :> (likes[LikeKey(p)] + 1)]
              /\ Goto(p, "createLike_update")
    /\ UNCHANGED <<dbVars, call, loc, envVars>>

\* tx.update(postsTable).set({ likes_count: likes_count + 1 })
createLike_update(p) ==
    /\ pc[p] = "createLike_update"
    /\ ~RowLocked(p, "posts", call[p].b)
    /\ tx' = [tx EXCEPT ![p].posts = IF call[p].b \in DOMAIN posts
                 THEN call[p].b :> [posts[call[p].b] EXCEPT
                          !.likes_count = likes_count_plus_1(@)]
                 ELSE EmptyRows]
    /\ Goto(p, "createLike_commit")
    /\ UNCHANGED <<dbVars, call, loc, envVars>>

createLike_commit(p) ==
    /\ pc[p] = "createLike_commit"
    /\ Commit(p)
    /\ Finish(p, "ok")
    /\ UNCHANGED <<call, loc, envVars>>

-----------------------------------------------------------------------------
(* deleteLike                                                              *)

Call_deleteLike(p) ==
    \E u \in UserArgs, po \in PostArgs :
        Begin(p, "deleteLike", u, po, "deleteLike_existingLike")

\* db.transaction begins; tx.select().from(likesTable)
deleteLike_existingLike(p) ==
    /\ pc[p] = "deleteLike_existingLike"
    /\ IF likes[LikeKey(p)] = 0
         THEN Finish(p, "success:false") /\ UNCHANGED tx
         ELSE Goto(p, "deleteLike_post") /\ tx' = [tx EXCEPT ![p].open = TRUE]
    /\ UNCHANGED <<dbVars, call, loc, envVars>>

\* deleteLike without the test of the post.
deleteLike_post_noCheck(p) ==
    /\ pc[p] = "deleteLike_post"
    /\ Goto(p, "deleteLike_delete")
    /\ UNCHANGED <<dbVars, tx, call, loc, envVars>>

\* tx.select().from(postsTable)
deleteLike_post(p) ==
    /\ pc[p] = "deleteLike_post"
    /\ IF call[p].b \in DOMAIN posts
         THEN Goto(p, "deleteLike_delete") /\ UNCHANGED <<dbVars, tx>>
         ELSE Finish(p, "Post not found") /\ Rollback(p)
    /\ UNCHANGED <<call, loc, envVars>>

\* tx.delete(likesTable).where(user_id = userId AND post_id = postId); the
\* number of rows it removed is not looked at.
deleteLike_delete(p) ==
    /\ pc[p] = "deleteLike_delete"
    /\ IF likes[LikeKey(p)] > 0
         THEN /\ ~RowLocked(p, "likes", LikeKey(p))
              /\ tx' = [tx EXCEPT ![p].likes = LikeKey(p) :> 0]
         ELSE UNCHANGED tx
    /\ Goto(p, "deleteLike_update")
    /\ UNCHANGED <<dbVars, call, loc, envVars>>

\* sql`GREATEST(likes_count - 1, 0)`; a decrement applied twice; and a
\* decrement without the floor
GreatestLikesCountMinusTwo(n) == IF n - 2 > 0 THEN n - 2 ELSE 0
LikesCountMinusOne(n) == n - 1
greatest_likes_count_minus_1_0(n) == IF n - 1 > 0 THEN n - 1 ELSE 0

\* tx.update(postsTable).set({ likes_count: GREATEST(likes_count - 1, 0) })
deleteLike_update(p) ==
    /\ pc[p] = "deleteLike_update"
    /\ ~RowLocked(p, "posts", call[p].b)
    /\ tx' = [tx EXCEPT ![p].posts = IF call[p].b \in DOMAIN posts
                 THEN call[p].b :> [posts[call[p].b] EXCEPT
                          !.likes_count = greatest_likes_count_minus_1_0(@)]
                 ELSE EmptyRows]
    /\ Goto(p, "deleteLike_commit")
    /\ UNCHANGED <<dbVars, call, loc, envVars>>

deleteLike_commit(p) ==
    /\ pc[p] = "deleteLike_commit"
    /\ Commit(p)
    /\ Finish(p, "success:true")
    /\ UNCHANGED <<call, loc, envVars>>

-----------------------------------------------------------------------------
(* createFollow                                                            *)

FollowKey(p) == <<call[p].a, call[p].b>>

ActiveUser(id) == id \in DOMAIN users /\ users[id].is_active

Call_createFollow(p) ==
    \E a \in UserArgs, b \in UserArgs :
        Begin(p, "createFollow", a, b, "createFollow_users")

\* createFollow without the self-follow test.
createFollow_users_noSelfTest(p) ==
    /\ pc[p] = "createFollow_users"
    /\ IF Cardinality({id \in {call[p].a, call[p].b} : ActiveUser(id)}) # 2
         THEN Finish(p, "One or both users do not exist or are inactive")
         ELSE Goto(p, "createFollow_existingFollow")
    /\ UNCHANGED <<dbVars, tx, call, loc, envVars>>

\* The self-follow test, then the union select of the two active users.
createFollow_users(p) ==
    /\ pc[p] = "createFollow_users"
    /\ IF call[p].a = call[p].b
         THEN Finish(p, "Users cannot follow themselves")
         ELSE IF Cardinality({id \in {call[p].a, call[p].b} : ActiveUser(id)}) # 2
              THEN Finish(p, "One or both users do not exist or are inactive")
              ELSE Goto(p, "createFollow_existingFollow")
    /\ UNCHANGED <<dbVars, tx, call, loc, envVars>>

createFollow_existingFollow(p) ==
    /\ pc[p] = "createFollow_existingFollow"
    /\ IF follows[FollowKey(p)] > 0
         THEN Finish(p, "Follow relationship already exists")
         ELSE Goto(p, "createFollow_insert")
    /\ UNCHANGED <<dbVars, tx, call, loc, envVars>>

\* db.transaction begins; tx.insert(followsTable)
createFollow_insert(p) ==
    /\ pc[p] = "createFollow_insert"
    /\ ~RowLocked(p, "follows", FollowKey(p))
    /\ IF UniqueViolation(follows[FollowKey(p)])
         THEN /\ Finish(p, DuplicateKey)
              /\ UNCHANGED tx
         ELSE /\ tx' = [tx EXCEPT ![p].open = TRUE,
                                  ![p].follows = FollowKey(p) :> (follows[FollowKey(p)] + 1)]
              /\ Goto(p, "createFollow_updateFollower")
    /\ UNCHANGED <<dbVars, call, loc, envVars>>

\* The users row id as p's transaction sees it, with one column changed.
UserRowWith(p, id, col, v) ==
    IF id \in DOMAIN users
      THEN (id :> [Read(tx[p].users, users, id) EXCEPT ![col] = v]) @@ tx[p].users
      ELSE tx[p].users

following_count_plus_1(n) == n + 1

\* sql`followers_count + 1`, and an increment applied twice
FollowersCountPlusTwo(n) == n + 2
followers_count_plus_1(n) == n + 1

\* tx.update(usersTable).set({ following_count: following_count + 1 })
createFollow_updateFollower(p) ==
    /\ pc[p] = "createFollow_updateFollower"
    /\ ~RowLocked(p, "users", call[p].a)
    /\ tx' = [tx EXCEPT ![p].users = UserRowWith(p, call[p].a, "following_count",
                 following_count_plus_1(Read(tx[p].users, users, call[p].a).following_count))]
    /\ Goto(p, "createFollow_updateFollowed")
    /\ UNCHANGED <<dbVars, call, loc, envVars>>

\* tx.update(usersTable).set({ followers_count: followers_count + 1 })
createFollow_updateFollowed(p) ==
    /\ pc[p] = "createFollow_updateFollowed"
    /\ ~RowLocked(p, "users", call[p].b)
    /\ tx' = [tx EXCEPT ![p].users = UserRowWith(p, call[p].b, "followers_count",
                 followers_count_plus_1(Read(tx[p].users, users, call[p].b).followers_count))]
    /\ Goto(p, "createFollow_commit")
    /\ UNCHANGED <<dbVars, call, loc, envVars>>

createFollow_commit(p) ==
    /\ pc[p] = "createFollow_commit"
    /\ Commit(p)
    /\ Finish(p, "ok")
    /\ UNCHANGED <<call, loc, envVars>>

-----------------------------------------------------------------------------
(* deleteFollow                                                            *)

Call_deleteFollow(p) ==
    \E a \in UserArgs, b \in UserArgs :
        Begin(p, "deleteFollow", a, b, "deleteFollow_existingFollow")

\* deleteFollow reporting success also when it found no row.
deleteFollow_existingFollow_alwaysTrue(p) ==
    /\ pc[p] = "deleteFollow_existingFollow"
    /\ IF follows[FollowKey(p)] = 0
         THEN Finish(p, "success:true") /\ UNCHANGED tx
         ELSE Goto(p, "deleteFollow_delete") /\ tx' = [tx EXCEPT ![p].open = TRUE]
    /\ UNCHANGED <<dbVars, call, loc, envVars>>

\* db.transaction begins; tx.select().from(followsTable)
deleteFollow_existingFollow(p) ==
    /\ pc[p] = "deleteFollow_existingFollow"
    /\ IF follows[FollowKey(p)] = 0
         THEN Finish(p, "success:false") /\ UNCHANGED tx
         ELSE Goto(p, "deleteFollow_delete") /\ tx' = [tx EXCEPT ![p].open = TRUE]
    /\ UNCHANGED <<dbVars, call, loc, envVars>>

\* tx.delete(followsTable).where(follower_id = a AND followed_id = b); the
\* number of rows it removed is not looked at.
deleteFollow_delete(p) ==
    /\ pc[p] = "deleteFollow_delete"
    /\ IF follows[FollowKey(p)] > 0
         THEN /\ ~RowLocked(p, "follows", FollowKey(p))
              /\ tx' = [tx EXCEPT ![p].follows = FollowKey(p) :> 0]
         ELSE UNCHANGED tx
    /\ Goto(p, "deleteFollow_updateFollower")
    /\ UNCHANGED <<dbVars, call, loc, envVars>>

\* sql`following_count - 1`, and a decrement applied twice
FollowingCountMinusTwo(n) == n - 2
following_count_minus_1(n) == n - 1

\* sql`followers_count - 1`, and a decrement with a floor at 0
GreatestFollowersCountMinusOne(n) == IF n - 1 > 0 THEN n - 1 ELSE 0
followers_count_minus_1(n) == n - 1

\* tx.update(usersTable).set({ following_count: following_count - 1 })
deleteFollow_updateFollower(p) ==
    /\ pc[p] = "deleteFollow_updateFollower"
    /\ ~RowLocked(p, "users", call[p].a)
    /\ tx' = [tx EXCEPT ![p].users = UserRowWith(p, call[p].a, "following_count",
                 following_count_minus_1(Read(tx[p].users, users, call[p].a).following_count))]
    /\ Goto(p, "deleteFollow_updateFollowed")
    /\ UNCHANGED <<dbVars, call, loc, envVars>>

\* tx.update(usersTable).set({ followers_count: followers_count - 1 })
deleteFollow_updateFollowed(p) ==
    /\ pc[p] = "deleteFollow_updateFollowed"
    /\ ~RowLocked(p, "users", call[p].b)
    /\ tx' = [tx EXCEPT ![p].users = UserRowWith(p, call[p].b, "followers_count",
                 followers_count_minus_1(Read(tx[p].users, users, call[p].b).followers_count))]
    /\ Goto(p, "deleteFollow_commit")
    /\ UNCHANGED <<dbVars, call, loc, envVars>>

deleteFollow_commit(p) ==
    /\ pc[p] = "deleteFollow_commit"
    /\ Commit(p)
    /\ Finish(p, "success:true")
    /\ UNCHANGED <<call, loc, envVars>>

-----------------------------------------------------------------------------
(* createShare                                                             *)

ShareKey(p) == <<call[p].a, call[p].b>>

Call_createShare(p) ==
    \E u \in UserArgs, po \in PostArgs :
        Begin(p, "createShare", u, po, "createShare_user")

\* db.transaction begins; tx.select().from(usersTable)
createShare_user(p) ==
    /\ pc[p] = "createShare_user"
    /\ IF call[p].a \in DOMAIN users
         THEN Goto(p, "createShare_post") /\ tx' = [tx EXCEPT ![p].open = TRUE]
         ELSE Finish(p, "User not found") /\ UNCHANGED tx
    /\ UNCHANGED <<dbVars, call, loc, envVars>>

\* tx.select().from(postsTable): the row read here is kept in `post`.
createShare_post(p) ==
    /\ pc[p] = "createShare_post"
    /\ IF call[p].b \in DOMAIN posts /\ posts[call[p].b].is_active
         THEN /\ loc' = [loc EXCEPT ![p].post = <<posts[call[p].b]>>]
              /\ Goto(p, "createShare_existingShare")
              /\ UNCHANGED <<dbVars, tx>>
         ELSE /\ Finish(p, "Post not found or inactive")
              /\ Rollback(p)
              /\ UNCHANGED loc
    /\ UNCHANGED <<call, envVars>>

createShare_existingShare(p) ==
    /\ pc[p] = "createShare_existingShare"
    /\ IF shares[ShareKey(p)] > 0
         THEN Finish(p, "User has already shared this post") /\ Rollback(p)
         ELSE Goto(p, "createShare_insert") /\ UNCHANGED <<dbVars, tx>>
    /\ UNCHANGED <<call, loc, envVars>>

\* tx.insert(sharesTable)
createShare_insert(p) ==
    /\ pc[p] = "createShare_insert"
    /\ ~RowLocked(p, "shares", ShareKey(p))
    /\ IF UniqueViolation(shares[ShareKey(p)])
         THEN /\ Finish(p, DuplicateKey)
              /\ Rollback(p)
         ELSE /\ tx' = [tx EXCEPT ![p].shares = ShareKey(p) :> (shares[ShareKey(p)] + 1)]
              /\ Goto(p, "createShare_update")
              /\ UNCHANGED dbVars
    /\ UNCHANGED <<call, loc, envVars>>

\* shares_count: post[0].shares_count + 1, from the row selected earlier
post_shares_count_plus_1(p) == loc[p].post[1].shares_count + 1

\* tx.update(postsTable).set({ shares_count: post[0].shares_count + 1 })
createShare_update(p) ==
    /\ pc[p] = "createShare_update"
    /\ ~RowLocked(p, "posts", call[p].b)
    /\ tx' = [tx EXCEPT ![p].posts = IF call[p].b \in DOMAIN posts
                 THEN call[p].b :> [posts[call[p].b] EXCEPT
                          !.shares_count = post_shares_count_plus_1(p)]
                 ELSE EmptyRows]
    /\ Goto(p, "createShare_commit")
    /\ UNCHANGED <<dbVars, call, loc, envVars>>

createShare_commit(p) ==
    /\ pc[p] = "createShare_commit"
    /\ Commit(p)
    /\ Finish(p, "ok")
    /\ UNCHANGED <<call, loc, envVars>>

-----------------------------------------------------------------------------
(* Money.  A numeric(10, 2) column holds cents; the handlers compute in    *)
(* JavaScript numbers, here in thousandths.                                *)

\* parseFloat of a numeric(10, 2) column
parseFloat(cents) == cents * 10

\* n.toString() stored into a numeric(10, 2) column: rounded to the cent,
\* half away from zero (n >= 0 here)
numeric_10_2(thousandths) == (thousandths + 5) \div 10

\* The store rejects a statement (numeric field overflow, lost connection):
\* execute() throws.
StoreRejects == faults < MaxFaults

Reject ==
    /\ StoreRejects
    /\ faults' = faults + 1

-----------------------------------------------------------------------------
(* topUpBalance                                                            *)

Call_topUpBalance(p) ==
    \E u \in UserArgs, amount \in Amounts :
        Begin(p, "topUpBalance", u, amount, "topUpBalance_user")

\* db.transaction begins; tx.select().from(usersTable)
topUpBalance_user(p) ==
    /\ pc[p] = "topUpBalance_user"
    /\ IF call[p].a \in DOMAIN users
         THEN /\ loc' = [loc EXCEPT ![p].user = <<users[call[p].a]>>]
              /\ tx' = [tx EXCEPT ![p].open = TRUE]
              /\ Goto(p, "topUpBalance_insert")
         ELSE /\ Finish(p, "User not found")
              /\ UNCHANGED <<tx, loc>>
    /\ UNCHANGED <<dbVars, call, envVars>>

\* The ledger row of a top-up, and one left in status 'pending'.
TopUpRowPending(p) ==
    [user_id |-> call[p].a, type |-> "topup", amount |-> numeric_10_2(call[p].b),
     premium_package_id |-> <<>>, status |-> "pending"]
TopUpRow(p) ==
    [user_id |-> call[p].a, type |-> "topup", amount |-> numeric_10_2(call[p].b),
     premium_package_id |-> <<>>, status |-> "completed"]

\* The insert issued on db instead of tx: committed at once.
topUpBalance_insert_db(p) ==
    /\ pc[p] = "topUpBalance_insert"
    /\ transactions' = Append(transactions, TopUpRow(p))
    /\ Goto(p, "topUpBalance_update")
    /\ UNCHANGED <<users, posts, likes, follows, shares, comments, premiumPackages, notifications,
                   tx, call, loc, envVars>>

\* tx.insert(transactionsTable)
topUpBalance_insert(p) ==
    /\ pc[p] = "topUpBalance_insert"
    /\ \/ /\ tx' = [tx EXCEPT ![p].transactions = Append(@, TopUpRow(p))]
          /\ Goto(p, "topUpBalance_update")
          /\ UNCHANGED <<dbVars, faults>>
       \/ /\ Reject
          /\ Rollback(p)
          /\ Finish(p, "insert rejected")
    /\ UNCHANGED <<call, loc, now, calls>>

\* The amount taken off the balance.
TopUpNewBalanceMinus(p) == parseFloat(loc[p].user[1].balance) - call[p].b
\* newBalance = parseFloat(user[0].balance) + input.amount
topUp_newBalance(p) == parseFloat(loc[p].user[1].balance) + call[p].b

\* tx.update(usersTable).set({ balance: newBalance.toString() })
topUpBalance_update(p) ==
    /\ pc[p] = "topUpBalance_update"
    /\ ~RowLocked(p, "users", call[p].a)
    /\ \/ /\ tx' = [tx EXCEPT ![p].users = UserRowWith(p, call[p].a, "balance",
                       numeric_10_2(topUp_newBalance(p)))]
          /\ Goto(p, "topUpBalance_commit")
          /\ UNCHANGED <<dbVars, faults>>
       \/ /\ Reject
          /\ Rollback(p)
          /\ Finish(p, "update rejected")
    /\ UNCHANGED <<call, loc, now, calls>>

topUpBalance_commit(p) ==
    /\ pc[p] = "topUpBalance_commit"
    /\ Commit(p)
    /\ Finish(p, "ok")
    /\ UNCHANGED <<call, loc, envVars>>

-----------------------------------------------------------------------------
(* purchasePremium: every statement is issued on db, outside a transaction *)

Call_purchasePremium(p) ==
    \E u \in UserArgs, pk \in PackageArgs :
        Begin(p, "purchasePremium", u, pk, "purchasePremium_user")

\* db.select().from(usersTable)
purchasePremium_user(p) ==
    /\ pc[p] = "purchasePremium_user"
    /\ IF call[p].a \in DOMAIN users
         THEN /\ loc' = [loc EXCEPT ![p].user = <<users[call[p].a]>>]
              /\ Goto(p, "purchasePremium_premiumPackage")
         ELSE /\ Finish(p, "User not found")
              /\ UNCHANGED loc
    /\ UNCHANGED <<dbVars, tx, call, envVars>>

\* The debit written before the balance is compared with the price.
purchasePremium_premiumPackage_debitFirst(p) ==
    /\ pc[p] = "purchasePremium_premiumPackage"
    /\ IF call[p].b \notin DOMAIN premiumPackages
         THEN Finish(p, "Premium package not found") /\ UNCHANGED <<loc, users>>
         ELSE IF ~premiumPackages[call[p].b].is_active
         THEN Finish(p, "Premium package is not available") /\ UNCHANGED <<loc, users>>
         ELSE /\ users' = [users EXCEPT ![call[p].a].balance =
                              @ - premiumPackages[call[p].b].price]
              /\ IF parseFloat(loc[p].user[1].balance)
                      < parseFloat(premiumPackages[call[p].b].price)
                   THEN Finish(p, "Insufficient balance") /\ UNCHANGED loc
                   ELSE /\ loc' = [loc EXCEPT ![p].pkg = <<premiumPackages[call[p].b]>>,
                                              ![p].now = now]
                        /\ Goto(p, "purchasePremium_update")
    /\ UNCHANGED <<posts, likes, follows, shares, comments, transactions, premiumPackages, notifications,
                   tx, call, envVars>>

\* The checks with the balance looked at before is_active.
purchasePremium_premiumPackage_balanceFirst(p) ==
    /\ pc[p] = "purchasePremium_premiumPackage"
    /\ IF call[p].b \notin DOMAIN premiumPackages
         THEN Finish(p, "Premium package not found") /\ UNCHANGED loc
         ELSE IF parseFloat(loc[p].user[1].balance) < parseFloat(premiumPackages[call[p].b].price)
         THEN Finish(p, "Insufficient balance") /\ UNCHANGED loc
         ELSE IF ~premiumPackages[call[p].b].is_active
         THEN Finish(p, "Premium package is not available") /\ UNCHANGED loc
         ELSE /\ loc' = [loc EXCEPT ![p].pkg = <<premiumPackages[call[p].b]>>,
                                    ![p].now = now]
              /\ Goto(p, "purchasePremium_update")
    /\ UNCHANGED <<dbVars, tx, call, envVars>>

\* db.select().from(premiumPackagesTable), then the checks of the package
\* and of the balance, then `now = new Date()`
purchasePremium_premiumPackage(p) ==
    /\ pc[p] = "purchasePremium_premiumPackage"
    /\ IF call[p].b \notin DOMAIN premiumPackages
         THEN Finish(p, "Premium package not found") /\ UNCHANGED loc
         ELSE IF ~premiumPackages[call[p].b].is_active
         THEN Finish(p, "Premium package is not available") /\ UNCHANGED loc
         ELSE IF parseFloat(loc[p].user[1].balance) < parseFloat(premiumPackages[call[p].b].price)
         THEN Finish(p, "Insufficient balance") /\ UNCHANGED loc
         ELSE /\ loc' = [loc EXCEPT ![p].pkg = <<premiumPackages[call[p].b]>>,
                                    ![p].now = now]
              /\ Goto(p, "purchasePremium_update")
    /\ UNCHANGED <<dbVars, tx, call, envVars>>

\* A purchase that always starts the new period now.
StartDateNow(currentExpiration, t) == t

\* startDate = currentExpiration && currentExpiration > now ? currentExpiration : now
startDate(currentExpiration, t) ==
    IF currentExpiration # <<>> /\ currentExpiration[1] > t
      THEN currentExpiration[1] ELSE t

newExpirationDate(p) ==
    startDate(loc[p].user[1].premium_expires_at, loc[p].now) + loc[p].pkg[1].duration_days

\* The price taken off twice.
PurchaseNewBalanceTwice(p) ==
    parseFloat(loc[p].user[1].balance) - 2 * parseFloat(loc[p].pkg[1].price)

\* newBalance = userBalance - packagePrice
purchase_newBalance(p) ==
    parseFloat(loc[p].user[1].balance) - parseFloat(loc[p].pkg[1].price)

\* db.update(usersTable).set({ balance, is_premium: true, premium_expires_at })
purchasePremium_update(p) ==
    /\ pc[p] = "purchasePremium_update"
    /\ ~RowLocked(p, "users", call[p].a)
    /\ \/ /\ users' = [users EXCEPT ![call[p].a] =
                          [@ EXCEPT !.balance = numeric_10_2(purchase_newBalance(p)),
                                    !.is_premium = TRUE,
                                    !.premium_expires_at = <<newExpirationDate(p)>>]]
          /\ Goto(p, "purchasePremium_insert")
          /\ UNCHANGED faults
       \/ /\ Reject
          /\ Finish(p, "update rejected")
          /\ UNCHANGED users
    /\ UNCHANGED <<posts, likes, follows, shares, comments, transactions, premiumPackages, notifications,
                   tx, call, loc, now, calls>>

PurchaseRow(p) ==
    [user_id |-> call[p].a, type |-> "purchase",
     amount |-> numeric_10_2(parseFloat(loc[p].pkg[1].price)),
     premium_package_id |-> <<call[p].b>>, status |-> "completed"]

\* db.insert(transactionsTable), and the handler returns the row
purchasePremium_insert(p) ==
    /\ pc[p] = "purchasePremium_insert"
    /\ \/ /\ transactions' = Append(transactions, PurchaseRow(p))
          /\ Finish(p, "ok")
          /\ UNCHANGED faults
       \/ /\ Reject
          /\ Finish(p, "insert rejected")
          /\ UNCHANGED transactions
    /\ UNCHANGED <<users, posts, likes, follows, shares, comments, premiumPackages, notifications,
                   tx, call, loc, now, calls>>

\* Time passes.
Tick ==
    /\ now < MaxTime
    /\ now' = now + 1
    /\ UNCHANGED <<dbVars, procVars, calls, faults>>

\* Sum of the amounts of the ledger rows of user u with the given type.
RECURSIVE LedgerSum(_, _, _)
LedgerSum(rows, u, type) ==
    IF rows = <<>> THEN 0
    ELSE (IF Head(rows).user_id = u /\ Head(rows).type = type
            THEN Head(rows).amount ELSE 0) + LedgerSum(Tail(rows), u, type)

-----------------------------------------------------------------------------
(* createComment                                                           *)

Call_createComment(p) ==
    \E u \in UserArgs, po \in PostArgs :
        Begin(p, "createComment", u, po, "createComment_user")

\* db.transaction begins; tx.select().from(usersTable) where is_active
createComment_user(p) ==
    /\ pc[p] = "createComment_user"
    /\ IF ActiveUser(call[p].a)
         THEN Goto(p, "createComment_post") /\ tx' = [tx EXCEPT ![p].open = TRUE]
         ELSE Finish(p, "User not found or inactive") /\ UNCHANGED tx
    /\ UNCHANGED <<dbVars, call, loc, envVars>>

\* tx.select().from(postsTable) where is_active: the row is kept in `post`.
createComment_post(p) ==
    /\ pc[p] = "createComment_post"
    /\ IF call[p].b \in DOMAIN posts /\ posts[call[p].b].is_active
         THEN /\ loc' = [loc EXCEPT ![p].post = <<posts[call[p].b]>>]
              /\ Goto(p, "createComment_commentResult")
              /\ UNCHANGED <<dbVars, tx>>
         ELSE /\ Finish(p, "Post not found or inactive")
              /\ Rollback(p)
              /\ UNCHANGED loc
    /\ UNCHANGED <<call, envVars>>

CommentRow(p) == [user_id |-> call[p].a, post_id |-> call[p].b]

\* tx.insert(commentsTable)
createComment_commentResult(p) ==
    /\ pc[p] = "createComment_commentResult"
    /\ tx' = [tx EXCEPT ![p].comments = Append(@, CommentRow(p))]
    /\ Goto(p, "createComment_update")
    /\ UNCHANGED <<dbVars, call, loc, envVars>>

\* comments_count: post[0].comments_count + 1, from the row selected earlier
post_comments_count_plus_1(p) == loc[p].post[1].comments_count + 1

\* tx.update(postsTable).set({ comments_count: post[0].comments_count + 1 })
createComment_update(p) ==
    /\ pc[p] = "createComment_update"
    /\ ~RowLocked(p, "posts", call[p].b)
    /\ tx' = [tx EXCEPT ![p].posts = IF call[p].b \in DOMAIN posts
                 THEN call[p].b :> [posts[call[p].b] EXCEPT
                          !.comments_count = post_comments_count_plus_1(p)]
                 ELSE EmptyRows]
    /\ Goto(p, "createComment_commit")
    /\ UNCHANGED <<dbVars, call, loc, envVars>>

createComment_commit(p) ==
    /\ pc[p] = "createComment_commit"
    /\ Commit(p)
    /\ Finish(p, "ok")
    /\ UNCHANGED <<call, loc, envVars>>

\* Number of Comment rows of post po.
CommentsOf(po) == Len(SelectSeq(comments, LAMBDA c : c.post_id = po))

-----------------------------------------------------------------------------
(* createNotification and getNotifications.  A notification is identified  *)
(* by its position in the table; both handlers issue every statement on    *)
(* `db`, outside any transaction.                                          *)

Call_createNotification(p) ==
    \E u \in UserIds :
        Begin(p, "createNotification", u, u, "createNotification_result")

\* db.insert(notificationsTable): is_read takes its default, false.
createNotification_result(p) ==
    /\ pc[p] = "createNotification_result"
    /\ notifications' = Append(notifications,
                               [user_id |-> call[p].a, is_read |-> FALSE])
    /\ Finish(p, "ok")
    /\ UNCHANGED <<users, posts, likes, follows, shares, comments, transactions,
                   premiumPackages, tx, call, loc, envVars>>

Call_getNotifications(p) ==
    \E u \in UserArgs :
        Begin(p, "getNotifications", u, u, "getNotifications_results")

\* where(eq(notificationsTable.user_id, userId))
OfUser(u) == {i \in 1..Len(notifications) : notifications[i].user_id = u}

\* db.select().from(notificationsTable): the rows are kept in `results`;
\* with no row the handler returns at once.
getNotifications_results(p) ==
    /\ pc[p] = "getNotifications_results"
    /\ loc' = [loc EXCEPT ![p].results = OfUser(call[p].a)]
    /\ IF OfUser(call[p].a) # {}
         THEN Goto(p, "getNotifications_update")
         ELSE Finish(p, "ok")
    /\ UNCHANGED <<dbVars, tx, call, envVars>>

\* The rows the update of p marks as read: where(eq(user_id, userId)).
Marked(p) == OfUser(call[p].a)

\* db.update(notificationsTable).set({ is_read: true }); the handler then
\* returns `results`.
getNotifications_update(p) ==
    /\ pc[p] = "getNotifications_update"
    /\ notifications' = [i \in 1..Len(notifications) |->
                            IF i \in Marked(p)
                            THEN [notifications[i] EXCEPT !.is_read = TRUE]
                            ELSE notifications[i]]
    /\ Finish(p, "ok")
    /\ UNCHANGED <<users, posts, likes, follows, shares, comments, transactions,
                   premiumPackages, tx, call, loc, envVars>>

-----------------------------------------------------------------------------
(* deletePost: both statements are issued on `db`.                         *)

Call_deletePost(p) ==
    \E po \in PostArgs :
        Begin(p, "deletePost", po, po, "deletePost_existingPost")

\* The select without the is_active condition.
deletePost_existingPost_anyPost(p) ==
    /\ pc[p] = "deletePost_existingPost"
    /\ IF call[p].b \in DOMAIN posts
         THEN Goto(p, "deletePost_result")
         ELSE Finish(p, "Post not found or already deleted")
    /\ UNCHANGED <<dbVars, tx, call, loc, envVars>>

\* db.select().from(postsTable) where id = postId and is_active
deletePost_existingPost(p) ==
    /\ pc[p] = "deletePost_existingPost"
    /\ IF call[p].b \in DOMAIN posts /\ posts[call[p].b].is_active
         THEN Goto(p, "deletePost_result")
         ELSE Finish(p, "Post not found or already deleted")
    /\ UNCHANGED <<dbVars, tx, call, loc, envVars>>

\* db.update(postsTable).set({ is_active: false }) where id = postId
deletePost_result(p) ==
    /\ pc[p] = "deletePost_result"
    /\ ~RowLocked(p, "posts", call[p].b)
    /\ posts' = [po \in DOMAIN posts |->
                   IF po = call[p].b THEN [posts[po] EXCEPT !.is_active = FALSE]
                   ELSE posts[po]]
    /\ Finish(p, "success:true")
    /\ UNCHANGED <<users, likes, follows, shares, comments, transactions,
                   premiumPackages, notifications, tx, call, loc, envVars>>

-----------------------------------------------------------------------------
(* Lock waits and deadlocks.                                               *)

\* The row the next statement of p has to lock, as <<table, key>>; <<>> when
\* that statement locks nothing.
Wants(p) ==
    CASE pc[p] \in {"createLike_insert"} -> <<"likes", LikeKey(p)>>
      [] pc[p] \in {"createLike_update", "deleteLike_update", "createShare_update",
                    "createComment_update", "deletePost_result"}
            -> <<"posts", call[p].b>>
      [] pc[p] = "deleteLike_delete" /\ likes[LikeKey(p)] > 0 -> <<"likes", LikeKey(p)>>
      [] pc[p] = "createFollow_insert" -> <<"follows", FollowKey(p)>>
      [] pc[p] = "deleteFollow_delete" /\ follows[FollowKey(p)] > 0
            -> <<"follows", FollowKey(p)>>
      [] pc[p] \in {"createFollow_updateFollower", "deleteFollow_updateFollower"}
            -> <<"users", call[p].a>>
      [] pc[p] \in {"createFollow_updateFollowed", "deleteFollow_updateFollowed"}
            -> <<"users", call[p].b>>
      [] pc[p] = "createShare_insert" -> <<"shares", ShareKey(p)>>
      [] OTHER -> <<>>

\* The requests whose pending write p waits for.
WaitsFor(p) ==
    IF Wants(p) = <<>> THEN {}
    ELSE {q \in Procs \ {p} : Wants(p)[2] \in DOMAIN tx[q][Wants(p)[1]]}

RECURSIVE WaitChain(_, _)
WaitChain(S, n) ==
    IF n = 0 THEN S
    ELSE WaitChain(S \cup UNION {WaitsFor(q) : q \in S}, n - 1)

\* p waits, directly or through others, for a request that waits for p.
InDeadlock(p) == p \in WaitChain(WaitsFor(p), NumProcs) /\ WaitsFor(p) # {}

\* The store's deadlock detector aborts a transaction of the cycle.
deadlock_detected(p) ==
    /\ InDeadlock(p)
    /\ Rollback(p)
    /\ Finish(p, "deadlock detected")
    /\ UNCHANGED <<call, loc, envVars>>

-----------------------------------------------------------------------------
(* Initial states.                                                         *)

Pairs(A, B) == A \X B

NewUser == [is_active |-> TRUE, followers_count |-> 0, following_count |-> 0,
            balance |-> 0, is_premium |-> FALSE, premium_expires_at |-> <<>>]

NewPost == [is_active |-> TRUE, likes_count |-> 0, comments_count |-> 0,
            shares_count |-> 0]

NoRows(A, B) == [k \in Pairs(A, B) |-> 0]

\* One row for each pair of S.
RowsOf(A, B, S) == [k \in Pairs(A, B) |-> IF k \in S THEN 1 ELSE 0]

InitProcs ==
    /\ tx = [p \in Procs |-> NoTx]
    /\ pc = [p \in Procs |-> "idle"]
    /\ call = [p \in Procs |-> [op |-> "none", a |-> 0, b |-> 0]]
    /\ loc = [p \in Procs |-> NoLoc]
    /\ result = [p \in Procs |-> "none"]
    /\ calls = 0

\* Users and posts exist, and some users already like post 1; every
\* likes_count is the number of Like rows of its post.
InitLikes ==
    /\ InitProcs
    /\ users = [u \in UserIds |-> NewUser]
    /\ \E S \in SUBSET (UserIds \X PostIds) :
          /\ likes = RowsOf(UserArgs, PostArgs, S)
          /\ posts = [po \in PostIds |->
                        [NewPost EXCEPT !.likes_count = Cardinality({k \in S : k[2] = po})]]
    /\ follows = NoRows(UserArgs, UserArgs)
    /\ shares = NoRows(UserArgs, PostArgs)
    /\ comments = <<>>
    /\ notifications = <<>>
    /\ transactions = <<>>
    /\ premiumPackages = EmptyRows
    /\ now = 0
    /\ faults = 0

\* Users exist and are active, and some already follow each other; every
\* followers_count and following_count is the number of Follow rows.
InitFollows ==
    /\ InitProcs
    /\ \E S \in SUBSET {k \in UserIds \X UserIds : k[1] # k[2]} :
          /\ follows = RowsOf(UserArgs, UserArgs, S)
          /\ users = [u \in UserIds |->
                        [NewUser EXCEPT
                           !.followers_count = Cardinality({k \in S : k[2] = u}),
                           !.following_count = Cardinality({k \in S : k[1] = u})]]
    /\ posts = [po \in PostIds |-> NewPost]
    /\ likes = NoRows(UserArgs, PostArgs)
    /\ shares = NoRows(UserArgs, PostArgs)
    /\ comments = <<>>
    /\ notifications = <<>>
    /\ transactions = <<>>
    /\ premiumPackages = EmptyRows
    /\ now = 0
    /\ faults = 0

\* No request is being served: calls made one after the other.
Sequential == \A q \in Procs : pc[q] \in {"idle", "done"}

NextFollowsSeq ==
    \E p \in Procs :
        \/ Sequential /\ Call_createFollow(p)
        \/ createFollow_users(p)
        \/ createFollow_existingFollow(p)
        \/ createFollow_insert(p)
        \/ createFollow_updateFollower(p)
        \/ createFollow_updateFollowed(p)
        \/ createFollow_commit(p)
        \/ Sequential /\ Call_deleteFollow(p)
        \/ deleteFollow_existingFollow(p)
        \/ deleteFollow_delete(p)
        \/ deleteFollow_updateFollower(p)
        \/ deleteFollow_updateFollowed(p)
        \/ deleteFollow_commit(p)

SpecFollowsSeq == InitFollows /\ [][NextFollowsSeq]_vars

\* As InitFollows, and user 2 may have been deactivated.
InitFollowsInactive ==
    /\ InitProcs
    /\ \E S \in SUBSET {k \in UserIds \X UserIds : k[1] # k[2]}, inactive \in SUBSET {2} :
          /\ follows = RowsOf(UserArgs, UserArgs, S)
          /\ users = [u \in UserIds |->
                        [NewUser EXCEPT
                           !.is_active = (u \notin inactive),
                           !.followers_count = Cardinality({k \in S : k[2] = u}),
                           !.following_count = Cardinality({k \in S : k[1] = u})]]
    /\ posts = [po \in PostIds |-> NewPost]
    /\ likes = NoRows(UserArgs, PostArgs)
    /\ shares = NoRows(UserArgs, PostArgs)
    /\ comments = <<>>
    /\ notifications = <<>>
    /\ transactions = <<>>
    /\ premiumPackages = EmptyRows
    /\ now = 0
    /\ faults = 0

NextFollows ==
    \E p \in Procs :
        \/ Call_createFollow(p)
        \/ createFollow_users(p)
        \/ createFollow_existingFollow(p)
        \/ createFollow_insert(p)
        \/ createFollow_updateFollower(p)
        \/ createFollow_updateFollowed(p)
        \/ createFollow_commit(p)
        \/ Call_deleteFollow(p)
        \/ deleteFollow_existingFollow(p)
        \/ deleteFollow_delete(p)
        \/ deleteFollow_updateFollower(p)
        \/ deleteFollow_updateFollowed(p)
        \/ deleteFollow_commit(p)
        \/ deadlock_detected(p)

SpecFollows == InitFollowsInactive /\ [][NextFollows]_vars

\* As InitFollows, with counters of 0 or 1 whatever the number of Follow
\* rows.
InitFollowsSkewed ==
    /\ InitProcs
    /\ \E S \in SUBSET {k \in UserIds \X UserIds : k[1] # k[2]} :
          follows = RowsOf(UserArgs, UserArgs, S)
    /\ \E n \in [UserIds -> 0..1] :
          users = [u \in UserIds |->
                     [NewUser EXCEPT !.followers_count = n[u],
                                     !.following_count = n[u]]]
    /\ posts = [po \in PostIds |-> NewPost]
    /\ likes = NoRows(UserArgs, PostArgs)
    /\ shares = NoRows(UserArgs, PostArgs)
    /\ comments = <<>>
    /\ notifications = <<>>
    /\ transactions = <<>>
    /\ premiumPackages = EmptyRows
    /\ now = 0
    /\ faults = 0

SpecFollowsSkewedSeq == InitFollowsSkewed /\ [][NextFollowsSeq]_vars

\* Users and posts exist; no relationship row yet and every counter is 0.
InitEmpty ==
    /\ InitProcs
    /\ users = [u \in UserIds |-> NewUser]
    /\ posts = [po \in PostIds |-> NewPost]
    /\ likes = NoRows(UserArgs, PostArgs)
    /\ follows = NoRows(UserArgs, UserArgs)
    /\ shares = NoRows(UserArgs, PostArgs)
    /\ comments = <<>>
    /\ notifications = <<>>
    /\ transactions = <<>>
    /\ premiumPackages = EmptyRows
    /\ now = 0
    /\ faults = 0

\* As InitEmpty; user 2 and the post may have been deactivated.
InitComments ==
    /\ InitProcs
    /\ \E ua \in BOOLEAN, pa \in BOOLEAN :
          /\ users = [u \in UserIds |->
                        [NewUser EXCEPT !.is_active = (u # 2 \/ ua)]]
          /\ posts = [po \in PostIds |-> [NewPost EXCEPT !.is_active = pa]]
    /\ likes = NoRows(UserArgs, PostArgs)
    /\ follows = NoRows(UserArgs, UserArgs)
    /\ shares = NoRows(UserArgs, PostArgs)
    /\ comments = <<>>
    /\ notifications = <<>>
    /\ transactions = <<>>
    /\ premiumPackages = EmptyRows
    /\ now = 0
    /\ faults = 0

NextComments ==
    \E p \in Procs :
        \/ Call_createComment(p)
        \/ createComment_user(p)
        \/ createComment_post(p)
        \/ createComment_commentResult(p)
        \/ createComment_update(p)
        \/ createComment_commit(p)

SpecComments == InitComments /\ [][NextComments]_vars

\* Up to two notifications of any users, read or unread, inserted directly.
InitNotifications ==
    /\ InitProcs
    /\ users = [u \in UserIds |-> NewUser]
    /\ posts = [po \in PostIds |-> NewPost]
    /\ likes = NoRows(UserArgs, PostArgs)
    /\ follows = NoRows(UserArgs, UserArgs)
    /\ shares = NoRows(UserArgs, PostArgs)
    /\ comments = <<>>
    /\ \E k \in 0..2 :
          notifications \in [1..k -> [user_id : UserIds, is_read : BOOLEAN]]
    /\ transactions = <<>>
    /\ premiumPackages = EmptyRows
    /\ now = 0
    /\ faults = 0

NextNotifications ==
    \E p \in Procs :
        \/ Call_createNotification(p)
        \/ createNotification_result(p)
        \/ Call_getNotifications(p)
        \/ getNotifications_results(p)
        \/ getNotifications_update(p)

SpecNotifications == InitNotifications /\ [][NextNotifications]_vars

\* A post, active or already deleted, with any Like and Share rows, up to
\* two Comment rows, and counters that match the rows.
InitPosts ==
    /\ InitProcs
    /\ users = [u \in UserIds |-> NewUser]
    /\ follows = NoRows(UserArgs, UserArgs)
    /\ \E L \in SUBSET (UserIds \X PostIds), S \in SUBSET (UserIds \X PostIds),
          k \in 0..2, active \in BOOLEAN :
          /\ likes = RowsOf(UserArgs, PostArgs, L)
          /\ shares = RowsOf(UserArgs, PostArgs, S)
          /\ comments = [i \in 1..k |-> [user_id |-> 1, post_id |-> 1]]
          /\ posts = [po \in PostIds |->
                        [NewPost EXCEPT !.is_active = active,
                                        !.likes_count = Cardinality(L),
                                        !.shares_count = Cardinality(S),
                                        !.comments_count = k]]
    /\ notifications = <<>>
    /\ transactions = <<>>
    /\ premiumPackages = EmptyRows
    /\ now = 0
    /\ faults = 0

NextDeletePostSeq ==
    \E p \in Procs :
        \/ Sequential /\ Call_deletePost(p)
        \/ deletePost_existingPost(p)
        \/ deletePost_result(p)

SpecDeletePostSeq == InitPosts /\ [][NextDeletePostSeq]_vars

\* deletePost next to the handlers that add an engagement to a post.
NextEngage ==
    \E p \in Procs :
        \/ Call_deletePost(p)
        \/ deletePost_existingPost(p)
        \/ deletePost_result(p)
        \/ Call_createLike(p)
        \/ createLike_userExists(p)
        \/ createLike_postExists(p)
        \/ createLike_existingLike(p)
        \/ createLike_insert(p)
        \/ createLike_update(p)
        \/ createLike_commit(p)
        \/ Call_createShare(p)
        \/ createShare_user(p)
        \/ createShare_post(p)
        \/ createShare_existingShare(p)
        \/ createShare_insert(p)
        \/ createShare_update(p)
        \/ createShare_commit(p)
        \/ Call_createComment(p)
        \/ createComment_user(p)
        \/ createComment_post(p)
        \/ createComment_commentResult(p)
        \/ createComment_update(p)
        \/ createComment_commit(p)

SpecEngage == InitEmpty /\ [][NextEngage]_vars

NextShares ==
    \E p \in Procs :
        \/ Call_createShare(p)
        \/ createShare_user(p)
        \/ createShare_post(p)
        \/ createShare_existingShare(p)
        \/ createShare_insert(p)
        \/ createShare_update(p)
        \/ createShare_commit(p)

SpecShares == InitEmpty /\ [][NextShares]_vars

NextCreate ==
    \E p \in Procs :
        \/ Call_createLike(p)
        \/ createLike_userExists(p)
        \/ createLike_postExists(p)
        \/ createLike_existingLike(p)
        \/ createLike_insert(p)
        \/ createLike_update(p)
        \/ createLike_commit(p)
        \/ Call_createFollow(p)
        \/ createFollow_users(p)
        \/ createFollow_existingFollow(p)
        \/ createFollow_insert(p)
        \/ createFollow_updateFollower(p)
        \/ createFollow_updateFollowed(p)
        \/ createFollow_commit(p)
        \/ Call_createShare(p)
        \/ createShare_user(p)
        \/ createShare_post(p)
        \/ createShare_existingShare(p)
        \/ createShare_insert(p)
        \/ createShare_update(p)
        \/ createShare_commit(p)
        \/ deadlock_detected(p)

SpecCreate == InitEmpty /\ [][NextCreate]_vars

LedgerUsers ==
    [u \in UserIds |->
        [NewUser EXCEPT !.balance = InitialBalance,
                        !.is_premium = (u = 2),
                        !.premium_expires_at = IF u = 2 THEN <<1>> ELSE <<>>]]

\* Users with a balance (user 2 with premium running until day 1), the
\* premium packages (package 2 inactive), and an empty ledger.
InitLedger ==
    /\ InitProcs
    /\ users = LedgerUsers
    /\ posts = [po \in PostIds |-> NewPost]
    /\ likes = NoRows(UserArgs, PostArgs)
    /\ follows = NoRows(UserArgs, UserArgs)
    /\ shares = NoRows(UserArgs, PostArgs)
    /\ comments = <<>>
    /\ notifications = <<>>
    /\ transactions = <<>>
    /\ premiumPackages = [i \in PackageIds |->
                            [price |-> PackagePrice * i, duration_days |-> PackageDays * i,
                             is_active |-> i = 1]]
    /\ now = 0
    /\ faults = 0

NextTopUp ==
    \E p \in Procs :
        \/ Call_topUpBalance(p)
        \/ topUpBalance_user(p)
        \/ topUpBalance_insert(p)
        \/ topUpBalance_update(p)
        \/ topUpBalance_commit(p)

SpecTopUp == InitLedger /\ [][NextTopUp]_vars

NextTopUpSeq ==
    \E p \in Procs :
        \/ Sequential /\ Call_topUpBalance(p)
        \/ topUpBalance_user(p)
        \/ topUpBalance_insert(p)
        \/ topUpBalance_update(p)
        \/ topUpBalance_commit(p)

SpecTopUpSeq == InitLedger /\ [][NextTopUpSeq]_vars

NextPurchase ==
    \/ \E p \in Procs :
        \/ Call_purchasePremium(p)
        \/ purchasePremium_user(p)
        \/ purchasePremium_premiumPackage(p)
        \/ purchasePremium_update(p)
        \/ purchasePremium_insert(p)
    \/ Tick

SpecPurchase == InitLedger /\ [][NextPurchase]_vars

\* Balances below, at and above the price of package 1.
Balances == {PackagePrice - 1, PackagePrice, InitialBalance}

\* As InitLedger, each user with one of the Balances.
InitPurchase ==
    /\ InitProcs
    /\ \E b \in [UserIds -> Balances] :
          users = [u \in UserIds |-> [LedgerUsers[u] EXCEPT !.balance = b[u]]]
    /\ posts = [po \in PostIds |-> NewPost]
    /\ likes = NoRows(UserArgs, PostArgs)
    /\ follows = NoRows(UserArgs, UserArgs)
    /\ shares = NoRows(UserArgs, PostArgs)
    /\ comments = <<>>
    /\ notifications = <<>>
    /\ transactions = <<>>
    /\ premiumPackages = [i \in PackageIds |->
                            [price |-> PackagePrice * i, duration_days |-> PackageDays * i,
                             is_active |-> i = 1]]
    /\ now = 0
    /\ faults = 0

\* As InitLedger, user 1 with exactly the price of package 1.
InitLedgerExact ==
    /\ InitProcs
    /\ users = [LedgerUsers EXCEPT ![1].balance = PackagePrice]
    /\ posts = [po \in PostIds |-> NewPost]
    /\ likes = NoRows(UserArgs, PostArgs)
    /\ follows = NoRows(UserArgs, UserArgs)
    /\ shares = NoRows(UserArgs, PostArgs)
    /\ comments = <<>>
    /\ notifications = <<>>
    /\ transactions = <<>>
    /\ premiumPackages = [i \in PackageIds |->
                            [price |-> PackagePrice * i, duration_days |-> PackageDays * i,
                             is_active |-> i = 1]]
    /\ now = 0
    /\ faults = 0

\* Top-ups and purchases of any users, interleaved, at one time of day.
NextLedger ==
    \E p \in Procs :
        \/ Call_topUpBalance(p)
        \/ topUpBalance_user(p)
        \/ topUpBalance_insert(p)
        \/ topUpBalance_update(p)
        \/ topUpBalance_commit(p)
        \/ Call_purchasePremium(p)
        \/ purchasePremium_user(p)
        \/ purchasePremium_premiumPackage(p)
        \/ purchasePremium_update(p)
        \/ purchasePremium_insert(p)

SpecLedger == InitLedgerExact /\ [][NextLedger]_vars

NextPurchaseSeq ==
    \/ \E p \in Procs :
        \/ Sequential /\ Call_purchasePremium(p)
        \/ purchasePremium_user(p)
        \/ purchasePremium_premiumPackage(p)
        \/ purchasePremium_update(p)
        \/ purchasePremium_insert(p)
    \/ Tick

SpecPurchaseSeq == InitPurchase /\ [][NextPurchaseSeq]_vars

\* As InitLikes, and Like rows may name a post that has no row (the posts
\* table has no foreign key and the post was removed).
InitLikesDangling ==
    /\ InitProcs
    /\ users = [u \in UserIds |-> NewUser]
    /\ \E S \in SUBSET (UserIds \X PostArgs) :
          /\ likes = RowsOf(UserArgs, PostArgs, S)
          /\ posts = [po \in PostIds |->
                        [NewPost EXCEPT !.likes_count = Cardinality({k \in S : k[2] = po})]]
    /\ follows = NoRows(UserArgs, UserArgs)
    /\ shares = NoRows(UserArgs, PostArgs)
    /\ comments = <<>>
    /\ notifications = <<>>
    /\ transactions = <<>>
    /\ premiumPackages = EmptyRows
    /\ now = 0
    /\ faults = 0

\* As InitLikes, with any likes_count from 0 to the number of users,
\* whatever the number of Like rows.
InitLikesSkewed ==
    /\ InitProcs
    /\ users = [u \in UserIds |-> NewUser]
    /\ \E S \in SUBSET (UserIds \X PostIds) :
          likes = RowsOf(UserArgs, PostArgs, S)
    /\ \E n \in [PostIds -> 0..Cardinality(UserIds)] :
          posts = [po \in PostIds |-> [NewPost EXCEPT !.likes_count = n[po]]]
    /\ follows = NoRows(UserArgs, UserArgs)
    /\ shares = NoRows(UserArgs, PostArgs)
    /\ comments = <<>>
    /\ notifications = <<>>
    /\ transactions = <<>>
    /\ premiumPackages = EmptyRows
    /\ now = 0
    /\ faults = 0

NextLikes ==
    \E p \in Procs :
        \/ Call_createLike(p)
        \/ createLike_userExists(p)
        \/ createLike_postExists(p)
        \/ createLike_existingLike(p)
        \/ createLike_insert(p)
        \/ createLike_update(p)
        \/ createLike_commit(p)
        \/ Call_deleteLike(p)
        \/ deleteLike_existingLike(p)
        \/ deleteLike_post(p)
        \/ deleteLike_delete(p)
        \/ deleteLike_update(p)
        \/ deleteLike_commit(p)

SpecLikes == InitLikes /\ [][NextLikes]_vars

SpecLikesSkewed == InitLikesSkewed /\ [][NextLikes]_vars

NextLikesSeq ==
    \E p \in Procs :
        \/ Sequential /\ Call_createLike(p)
        \/ createLike_userExists(p)
        \/ createLike_postExists(p)
        \/ createLike_existingLike(p)
        \/ createLike_insert(p)
        \/ createLike_update(p)
        \/ createLike_commit(p)
        \/ Sequential /\ Call_deleteLike(p)
        \/ deleteLike_existingLike(p)
        \/ deleteLike_post(p)
        \/ deleteLike_delete(p)
        \/ deleteLike_update(p)
        \/ deleteLike_commit(p)

SpecLikesSeq == InitLikes /\ [][NextLikesSeq]_vars

SpecLikesDanglingSeq == InitLikesDangling /\ [][NextLikesSeq]_vars

-----------------------------------------------------------------------------
(* C1: in every state with no transaction in flight, each post's           *)
(* likes_count equals the number of Like rows of the post, and each        *)
(* (user_id, post_id) pair has at most one Like row.                       *)
C1_LikesCountMatchesRows ==
    Quiescent =>
        /\ \A po \in DOMAIN posts : posts[po].likes_count = RowsWithTarget(likes, po)
        /\ \A k \in DOMAIN likes : likes[k] <= 1

(* C2: after any sequence of createFollow and deleteFollow calls, in every *)
(* state with no transaction in flight each user's followers_count is the  *)
(* number of Follow rows naming the user as followed, and following_count  *)
(* the number of Follow rows naming the user as follower.                  *)
C2_FollowCountsMatchRows ==
    Quiescent =>
        \A u \in DOMAIN users :
            /\ users[u].followers_count = RowsWithTarget(follows, u)
            /\ users[u].following_count = RowsWithActor(follows, u)

\* One request has created a Follow row and another has removed one.
C2_Witness ==
    /\ Quiescent
    /\ \E p, q \in Procs :
          /\ call[p].op = "createFollow" /\ result[p] = "ok"
          /\ call[q].op = "deleteFollow" /\ result[q] = "success:true"
          /\ follows[FollowKey(p)] = 1
          /\ users[call[p].b].followers_count = 1

(* C3: createShare calls by different users on the same active post that   *)
(* run concurrently leave, once all have committed, shares_count equal to  *)
(* the number of Share rows of the post: no increment is lost.             *)
C3_SharesCountMatchesRows ==
    Quiescent =>
        \A po \in DOMAIN posts : posts[po].shares_count = RowsWithTarget(shares, po)

\* Every worker has served one call, all calls with the same arguments.
SamePairCalls ==
    /\ calls = NumProcs
    /\ \A p \in Procs : pc[p] = "done"
    /\ \A p, q \in Procs : call[p] = call[q]

(* C10: N create calls for the same (actor, target) pair that run          *)
(* concurrently end with exactly one call returning the created row and    *)
(* the others failing; one row exists for the pair and the related         *)
(* counters are 1 higher than the 0 they started from.                     *)
C10_OneWinner ==
    SamePairCalls =>
        LET c == call[1]
            k == <<c.a, c.b>>
            winners == {p \in Procs : result[p] = "ok"}
        IN  /\ (c.op = "createLike" /\ c.a \in UserIds /\ c.b \in PostIds) =>
                  /\ Cardinality(winners) = 1
                  /\ likes[k] = 1
                  /\ posts[c.b].likes_count = 1
            /\ (c.op = "createShare" /\ c.a \in UserIds /\ c.b \in PostIds) =>
                  /\ Cardinality(winners) = 1
                  /\ shares[k] = 1
                  /\ posts[c.b].shares_count = 1
            /\ (c.op = "createFollow" /\ c.a \in UserIds /\ c.b \in UserIds /\ c.a # c.b) =>
                  /\ Cardinality(winners) = 1
                  /\ follows[k] = 1
                  /\ users[c.a].following_count = 1
                  /\ users[c.b].followers_count = 1

\* Every call passed its pre-existence check and all but one were rejected
\* by the unique index.
C10_Witness ==
    /\ SamePairCalls
    /\ call[1].op = "createFollow"
    /\ Cardinality({p \in Procs : result[p] = DuplicateKey}) = NumProcs - 1
    /\ Cardinality({p \in Procs : result[p] = "ok"}) = 1

\* No request is being served.
NoCallInFlight == \A p \in Procs : pc[p] \in {"idle", "done"}

(* C4: purchasePremium is all-or-nothing: when the only call made so far   *)
(* is a purchasePremium call that has ended in a failure, the user's       *)
(* balance, is_premium and premium_expires_at are what they were before    *)
(* the call and no Transaction row exists.                                 *)
C4_PurchaseAllOrNothing ==
    \A p \in Procs :
        (calls = 1 /\ call[p].op = "purchasePremium" /\ pc[p] = "done"
           /\ result[p] # "ok") =>
            /\ users = LedgerUsers
            /\ transactions = <<>>

(* C5: concurrent purchasePremium calls for one user cannot double-spend:  *)
(* once the calls have ended (none of them rejected by the store), the     *)
(* user's balance is the initial balance minus the sum of the amounts of   *)
(* the user's purchase Transaction rows.                                   *)
C5_NoDoubleSpend ==
    (NoCallInFlight /\ faults = 0) =>
        \A u \in DOMAIN users :
            users[u].balance = InitialBalance - LedgerSum(transactions, u, "purchase")

(* C6: a successful topUpBalance call leaves the user's balance equal to   *)
(* the balance before the call plus the amount, appends exactly one        *)
(* Transaction row of type topup with that amount, no package and status   *)
(* completed, and changes no other user's balance.                         *)
C6_TopUpCredits ==
    [][\A p \in Procs :
          (pc[p] = "topUpBalance_commit" /\ pc'[p] = "done") =>
              /\ parseFloat(users'[call[p].a].balance)
                    = parseFloat(users[call[p].a].balance) + call[p].b
              /\ Len(transactions') = Len(transactions) + 1
              /\ LET row == transactions'[Len(transactions')]
                 IN  /\ row.user_id = call[p].a
                     /\ row.type = "topup"
                     /\ parseFloat(row.amount) = call[p].b
                     /\ row.premium_package_id = <<>>
                     /\ row.status = "completed"
              /\ SubSeq(transactions', 1, Len(transactions)) = transactions
              /\ \A v \in DOMAIN users \ {call[p].a} : users'[v].balance = users[v].balance
      ]_vars

(* C7: n topUpBalance calls that run concurrently and all commit leave n   *)
(* topup Transaction rows, and every user's balance equal to the initial   *)
(* balance plus the amounts of the user's topup rows: no credit recorded   *)
(* in the ledger is lost from the balance.                                 *)
C7_NoLostCredit ==
    (calls = NumProcs /\ \A p \in Procs : pc[p] = "done" /\ result[p] = "ok") =>
        /\ Len(transactions) = NumProcs
        /\ \A u \in DOMAIN users :
              users[u].balance = InitialBalance + LedgerSum(transactions, u, "topup")

(* C8: a topUpBalance call that fails (the balance update rejected after   *)
(* the Transaction insert, the insert rejected, or the user missing)       *)
(* leaves no Transaction row and no balance change behind: only the commit *)
(* step of a successful call changes a committed row, and the step that    *)
(* fails discards the pending insert.                                      *)
C8_FailedTopUpWritesNothing ==
    [][\A p \in Procs :
          (call[p].op = "topUpBalance" /\ pc[p] \notin {"idle", "done"} /\ pc'[p] # pc[p]
             /\ ~(pc'[p] = "done" /\ result'[p] = "ok")) =>
              /\ users' = users
              /\ transactions' = transactions
              /\ pc'[p] = "done" => tx'[p] = NoTx
      ]_vars

\* The update was rejected after the insert, and nothing of the call is left.
C8_Witness ==
    \E p \in Procs :
        /\ call[p].op = "topUpBalance"
        /\ pc[p] = "done"
        /\ result[p] = "update rejected"
        /\ transactions = <<>>
        /\ users = LedgerUsers

(* C9: the second of two createLike calls made in sequence for the same    *)
(* (user_id, post_id) raises the duplicate error and changes nothing, the  *)
(* first having added exactly one Like row for the pair and raised the     *)
(* post's likes_count by exactly 1.                                        *)
C9_DuplicateLikeRejected ==
    [][\A p \in Procs :
          (call[p].op = "createLike" /\ pc[p] \notin {"idle", "done"} /\ pc'[p] # pc[p]) =>
              IF likes[LikeKey(p)] >= 1
                THEN /\ likes' = likes
                     /\ posts' = posts
                     /\ pc'[p] = "done" => result'[p] = "User has already liked post"
                ELSE IF pc'[p] = "done" /\ result'[p] = "ok"
                THEN /\ likes' = [likes EXCEPT ![LikeKey(p)] = 1]
                     /\ posts' = [posts EXCEPT ![call[p].b].likes_count = @ + 1]
                ELSE /\ likes' = likes
                     /\ posts' = posts
      ]_vars

\* A first call succeeded, a second one for the same pair was rejected.
C9_Witness ==
    \E p, q \in Procs :
        /\ call[p].op = "createLike" /\ call[q] = call[p]
        /\ pc[p] = "done" /\ pc[q] = "done"
        /\ result[p] = "ok"
        /\ result[q] = "User has already liked post"
        /\ likes[LikeKey(p)] = 1
        /\ posts[call[p].b].likes_count = RowsWithTarget(likes, call[p].b)

(* C11: of two deleteLike calls made in sequence for the same existing     *)
(* (user_id, post_id), the first returns {success: true}, removes the      *)
(* pair's Like row and lowers the post's likes_count by exactly 1; the     *)
(* second, finding no row, returns {success: false} and changes no row.    *)
C11_SecondDeleteLikeIsNoOp ==
    [][\A p \in Procs :
          (call[p].op = "deleteLike" /\ pc[p] \notin {"idle", "done"} /\ pc'[p] # pc[p]) =>
              IF likes[LikeKey(p)] = 0
                THEN /\ likes' = likes
                     /\ posts' = posts
                     /\ pc'[p] = "done" /\ result'[p] = "success:false"
                ELSE IF pc'[p] = "done"
                THEN /\ result'[p] = "success:true"
                     /\ likes' = [likes EXCEPT ![LikeKey(p)] = 0]
                     /\ posts' = [posts EXCEPT ![call[p].b].likes_count = @ - 1]
                ELSE /\ likes' = likes
                     /\ posts' = posts
      ]_vars

\* A first call removed the row, a second one for the same pair found none.
C11_Witness ==
    \E p, q \in Procs :
        /\ call[p].op = "deleteLike" /\ call[q] = call[p]
        /\ pc[p] = "done" /\ pc[q] = "done"
        /\ result[p] = "success:true"
        /\ result[q] = "success:false"
        /\ likes[LikeKey(p)] = 0
        /\ posts[call[p].b].likes_count = RowsWithTarget(likes, call[p].b)

(* C12: createFollow with follower_id = followed_id always raises 'Users   *)
(* cannot follow themselves', whether or not the user exists or is active, *)
(* and writes nothing; and no reachable state holds a Follow row whose     *)
(* follower_id equals its followed_id.                                     *)
C12_NoSelfFollow ==
    /\ [](\A k \in DOMAIN follows : k[1] = k[2] => follows[k] = 0)
    /\ [][\A p \in Procs :
            (call[p].op = "createFollow" /\ call[p].a = call[p].b
               /\ pc[p] \notin {"idle", "done"} /\ pc'[p] # pc[p]) =>
                /\ pc'[p] = "done"
                /\ result'[p] = "Users cannot follow themselves"
                /\ follows' = follows
                /\ users' = users
                /\ tx'[p] = NoTx
       ]_vars

\* Self-follows of an active, of an inactive and of a missing user were all
\* refused.
C12_Witness ==
    /\ \E p \in Procs :
          /\ call[p].op = "createFollow" /\ call[p].a = 2 /\ call[p].b = 2
          /\ ~users[2].is_active
          /\ pc[p] = "done" /\ result[p] = "Users cannot follow themselves"
    /\ \E p \in Procs :
          /\ call[p].op = "createFollow" /\ call[p].a = call[p].b
          /\ call[p].a \notin DOMAIN users
          /\ pc[p] = "done" /\ result[p] = "Users cannot follow themselves"

(* C13: the update of a purchasePremium call sets premium_expires_at to    *)
(* start + duration_days of the package, where start is the user's         *)
(* premium_expires_at when that is set and strictly later than the call's  *)
(* now, and now otherwise: a period still running is extended, not         *)
(* restarted.                                                              *)
C13_ExpirationExtended ==
    [][\A p \in Procs :
          (pc[p] = "purchasePremium_update" /\ pc'[p] = "purchasePremium_insert") =>
              LET u == users[call[p].a]
                  start == IF u.premium_expires_at # <<>>
                                /\ u.premium_expires_at[1] > loc[p].now
                             THEN u.premium_expires_at[1]
                             ELSE loc[p].now
              IN  users'[call[p].a].premium_expires_at
                     = <<start + premiumPackages[call[p].b].duration_days>>
      ]_vars

\* User 2, whose premium runs until day 1, bought package 1 on day 0 and
\* now expires on day 1 + PackageDays.
C13_Witness ==
    \E p \in Procs :
        /\ call[p].op = "purchasePremium" /\ call[p].a = 2 /\ call[p].b = 1
        /\ pc[p] = "done" /\ result[p] = "ok"
        /\ calls = 1
        /\ loc[p].now = 0
        /\ users[2].premium_expires_at = <<1 + PackageDays>>

\* The first precondition of purchasePremium(u, pk) that fails in the
\* current state, "none" when all hold.
FirstFailedCheck(u, pk) ==
    IF u \notin DOMAIN users THEN "User not found"
    ELSE IF pk \notin DOMAIN premiumPackages THEN "Premium package not found"
    ELSE IF ~premiumPackages[pk].is_active THEN "Premium package is not available"
    ELSE IF users[u].balance < premiumPackages[pk].price THEN "Insufficient balance"
    ELSE "none"

PreconditionErrors ==
    {"User not found", "Premium package not found",
     "Premium package is not available", "Insufficient balance"}

(* C14: purchasePremium checks user exists, package exists, package is     *)
(* active, balance >= price in this order: a call ends with a precondition *)
(* error exactly when a precondition fails, and the error is that of the   *)
(* first one that fails.                                                   *)
C14_FirstFailedCheckReported ==
    [][\A p \in Procs :
          (call[p].op = "purchasePremium" /\ pc[p] \notin {"idle", "done"}
             /\ pc'[p] # pc[p]) =>
              LET e == FirstFailedCheck(call[p].a, call[p].b)
              IN  /\ (pc'[p] = "done" /\ result'[p] \in PreconditionErrors) =>
                         result'[p] = e
                  /\ pc[p] = "purchasePremium_user" =>
                         (pc'[p] = "done") = (e = "User not found")
                  /\ pc[p] = "purchasePremium_premiumPackage" =>
                         (pc'[p] = "done") = (e # "none")
      ]_vars

\* A missing user with a missing package was reported as a missing user, and
\* an inactive package that the user could not pay as an unavailable package.
C14_Witness ==
    /\ \E p \in Procs :
          /\ call[p].op = "purchasePremium"
          /\ call[p].a \notin DOMAIN users /\ call[p].b \notin DOMAIN premiumPackages
          /\ pc[p] = "done" /\ result[p] = "User not found"
    /\ \E p \in Procs :
          /\ call[p].op = "purchasePremium"
          /\ call[p].a \in DOMAIN users /\ call[p].b \in DOMAIN premiumPackages
          /\ ~premiumPackages[call[p].b].is_active
          /\ users[call[p].a].balance < premiumPackages[call[p].b].price
          /\ pc[p] = "done" /\ result[p] = "Premium package is not available"

(* C15: a purchasePremium call that fails a precondition writes nothing:   *)
(* a precondition error is raised only by the two steps that read the user *)
(* and the package, and those steps change no row of any table.            *)
C15_FailedPreconditionWritesNothing ==
    [][\A p \in Procs :
          (call[p].op = "purchasePremium" /\ pc[p] \notin {"idle", "done"}
             /\ pc'[p] # pc[p]) =>
              /\ (pc'[p] = "done" /\ result'[p] \in PreconditionErrors) =>
                     pc[p] \in {"purchasePremium_user", "purchasePremium_premiumPackage"}
              /\ pc[p] \in {"purchasePremium_user", "purchasePremium_premiumPackage"} =>
                     /\ users' = users
                     /\ transactions' = transactions
                     /\ premiumPackages' = premiumPackages
      ]_vars

\* The only call so far: user 1 could not pay package 1, and nothing was
\* written.
C15_Witness ==
    \E p \in Procs :
        /\ calls = 1
        /\ call[p].op = "purchasePremium" /\ call[p].a = 1 /\ call[p].b = 1
        /\ pc[p] = "done" /\ result[p] = "Insufficient balance"
        /\ users[1] = [LedgerUsers[1] EXCEPT !.balance = PackagePrice - 1]
        /\ transactions = <<>>

(* C16: a purchasePremium call passes its checks exactly when user and     *)
(* package exist, the package is active and balance >= price (equality     *)
(* included); its update then debits the balance by exactly the price and  *)
(* sets is_premium, and its insert appends exactly one Transaction row of  *)
(* type purchase with the price as amount, the package id and status       *)
(* completed; the call returns the row only after both.                    *)
C16_PurchaseEffect ==
    [][\A p \in Procs :
          (call[p].op = "purchasePremium" /\ pc[p] \notin {"idle", "done"}
             /\ pc'[p] # pc[p]) =>
              LET u == call[p].a
                  pk == call[p].b
              IN  /\ pc[p] = "purchasePremium_user" =>
                         (pc'[p] = "purchasePremium_premiumPackage") = (u \in DOMAIN users)
                  /\ pc[p] = "purchasePremium_premiumPackage" =>
                         (pc'[p] = "purchasePremium_update")
                           = /\ pk \in DOMAIN premiumPackages
                             /\ premiumPackages[pk].is_active
                             /\ users[u].balance >= premiumPackages[pk].price
                  /\ pc'[p] = "purchasePremium_update" =>
                         pc[p] = "purchasePremium_premiumPackage"
                  /\ pc'[p] = "purchasePremium_insert" =>
                         /\ pc[p] = "purchasePremium_update"
                         /\ users' = [users EXCEPT ![u] =
                               [@ EXCEPT !.balance = @ - premiumPackages[pk].price,
                                         !.is_premium = TRUE,
                                         !.premium_expires_at = users'[u].premium_expires_at]]
                         /\ users'[u].balance >= 0
                         /\ transactions' = transactions
                  /\ (pc'[p] = "done" /\ result'[p] = "ok") =>
                         /\ pc[p] = "purchasePremium_insert"
                         /\ users' = users
                         /\ transactions' = Append(transactions,
                               [user_id |-> u, type |-> "purchase",
                                amount |-> premiumPackages[pk].price,
                                premium_package_id |-> <<pk>>, status |-> "completed"])
      ]_vars

\* The only call so far: a user whose balance was the price bought package 1
\* and is left with 0.
C16_Witness ==
    \E p \in Procs :
        /\ calls = 1
        /\ call[p].op = "purchasePremium" /\ call[p].b = 1
        /\ pc[p] = "done" /\ result[p] = "ok"
        /\ users[call[p].a].balance = 0
        /\ users[call[p].a].is_premium
        /\ Len(transactions) = 1
        /\ transactions[1].amount = PackagePrice

(* C17: a deleteLike call for a pair with no Like row returns              *)
(* {success: false} and changes nothing, also when the post has no row;    *)
(* a call for a pair with a Like row whose post has no row raises 'Post    *)
(* not found' and leaves the Like row in place.                            *)
C17_DeleteLikeMissing ==
    [][\A p \in Procs :
          (call[p].op = "deleteLike" /\ pc[p] \notin {"idle", "done"} /\ pc'[p] # pc[p]) =>
              IF likes[LikeKey(p)] = 0
                THEN /\ pc'[p] = "done" /\ result'[p] = "success:false"
                     /\ likes' = likes /\ posts' = posts
                     /\ tx'[p] = NoTx
                ELSE call[p].b \notin DOMAIN posts =>
                     /\ pc'[p] \in {"deleteLike_post", "done"}
                     /\ pc'[p] = "done" =>
                            result'[p] = "Post not found" /\ tx'[p] = NoTx
                     /\ likes' = likes /\ posts' = posts
      ]_vars

\* One call found neither the like nor the post; another found the like of
\* a post that has no row, and the like is still there.
C17_Witness ==
    /\ \E p \in Procs :
          /\ call[p].op = "deleteLike" /\ call[p].b \notin DOMAIN posts
          /\ likes[LikeKey(p)] = 0
          /\ pc[p] = "done" /\ result[p] = "success:false"
    /\ \E p \in Procs :
          /\ call[p].op = "deleteLike" /\ call[p].b \notin DOMAIN posts
          /\ likes[LikeKey(p)] = 1
          /\ pc[p] = "done" /\ result[p] = "Post not found"

(* C18: a deleteFollow call for a pair with no Follow row returns          *)
(* {success: false} without raising and changes no Follow row and no       *)
(* counter; a call returns {success: true} only when the row of exactly    *)
(* its pair was removed, every other Follow row staying in place.          *)
C18_DeleteFollowMissing ==
    [][\A p \in Procs :
          (call[p].op = "deleteFollow" /\ pc[p] \notin {"idle", "done"} /\ pc'[p] # pc[p]) =>
              IF follows[FollowKey(p)] = 0
                THEN /\ pc'[p] = "done" /\ result'[p] = "success:false"
                     /\ follows' = follows /\ users' = users
                     /\ tx'[p] = NoTx
                ELSE IF pc'[p] = "done"
                THEN /\ result'[p] = "success:true"
                     /\ follows' = [follows EXCEPT ![FollowKey(p)] = 0]
                ELSE /\ follows' = follows /\ users' = users
      ]_vars

\* A call removed the row of its pair and left the row of the opposite pair;
\* a later call for the same pair found nothing.
C18_Witness ==
    \E p, q \in Procs :
        /\ call[p].op = "deleteFollow" /\ call[q] = call[p]
        /\ pc[p] = "done" /\ result[p] = "success:true"
        /\ pc[q] = "done" /\ result[q] = "success:false"
        /\ follows[FollowKey(p)] = 0
        /\ follows[<<call[p].b, call[p].a>>] = 1
        /\ users[call[p].a].followers_count = 1

(* C19: a createFollow call whose follower or followed user has no row or  *)
(* is inactive raises and writes nothing; a call creates the Follow row    *)
(* and raises the follower's following_count and the followed user's       *)
(* followers_count by exactly 1 each, and does so only when both users     *)
(* are active, differ and the pair had no row.                             *)
C19_CreateFollowPreconditions ==
    [][\A p \in Procs :
          (call[p].op = "createFollow" /\ pc[p] \notin {"idle", "done"} /\ pc'[p] # pc[p]) =>
              LET a == call[p].a
                  b == call[p].b
                  active == /\ a \in DOMAIN users /\ users[a].is_active
                            /\ b \in DOMAIN users /\ users[b].is_active
              IN  IF ~active
                    THEN /\ pc'[p] = "done" /\ result'[p] # "ok"
                         /\ follows' = follows /\ users' = users
                         /\ tx'[p] = NoTx
                    ELSE IF pc'[p] = "done" /\ result'[p] = "ok"
                    THEN /\ a # b
                         /\ follows[<<a, b>>] = 0
                         /\ follows' = [follows EXCEPT ![<<a, b>>] = 1]
                         /\ users' = [users EXCEPT
                                         ![a].following_count = @ + 1,
                                         ![b].followers_count = @ + 1]
                    ELSE /\ follows' = follows /\ users' = users
      ]_vars

\* A follow of an inactive user and a follow by a missing user were both
\* refused.
C19_Witness ==
    /\ \E p \in Procs :
          /\ call[p].op = "createFollow" /\ call[p].a = 1 /\ call[p].b = 2
          /\ ~users[2].is_active
          /\ pc[p] = "done"
          /\ result[p] = "One or both users do not exist or are inactive"
          /\ follows[FollowKey(p)] = 0
    /\ \E p \in Procs :
          /\ call[p].op = "createFollow"
          /\ call[p].a \notin DOMAIN users /\ call[p].b = 1
          /\ pc[p] = "done"
          /\ result[p] = "One or both users do not exist or are inactive"

(* C20: likes_count never becomes negative: from any state with            *)
(* likes_count >= 0, also one where it is smaller than the number of Like  *)
(* rows, every committed and every pending likes_count stays >= 0 under    *)
(* any interleaving of createLike and deleteLike calls.                    *)
C20_LikesCountNotNegative ==
    /\ \A po \in DOMAIN posts : posts[po].likes_count >= 0
    /\ \A p \in Procs : \A po \in DOMAIN tx[p].posts :
          tx[p].posts[po].likes_count >= 0

\* The only call so far removed one of the two likes of post 1, whose
\* likes_count was below 2 and is now 0.
C20_Witness ==
    \E p \in Procs :
        /\ calls = 1
        /\ call[p].op = "deleteLike" /\ call[p].b = 1
        /\ pc[p] = "done" /\ result[p] = "success:true"
        /\ RowsWithTarget(likes, 1) = 1
        /\ posts[1].likes_count = 0

C22_CommentsCountMatchesRows ==
    Quiescent =>
        \A po \in DOMAIN posts : posts[po].comments_count = CommentsOf(po)

(* C23: getNotifications(u) marks as read exactly the notifications it     *)
(* returns: a notification becomes read only in the update of a call that  *)
(* selected it, also when createNotification inserts a row between the     *)
(* select and the update; no other user's notification changes.            *)
C23_MarksExactlyReturned ==
    [][\A i \in 1..Len(notifications) :
          (~notifications[i].is_read /\ notifications'[i].is_read) =>
              \E p \in Procs :
                  /\ pc[p] = "getNotifications_update" /\ pc'[p] = "done"
                  /\ notifications[i].user_id = call[p].a
                  /\ i \in loc[p].results
      ]_vars

(* C24: the Transaction table is append-only: a row, once written, keeps   *)
(* its user_id, type, amount, premium_package_id and status for ever, and  *)
(* every row written by topUpBalance or purchasePremium has status         *)
(* 'completed'.                                                            *)
C24_LedgerAppendOnly ==
    /\ [](\A i \in 1..Len(transactions) : transactions[i].status = "completed")
    /\ [][/\ Len(transactions') >= Len(transactions)
          /\ \A i \in 1..Len(transactions) : transactions'[i] = transactions[i]
        ]_vars

\* A top-up and a purchase have both written their ledger row.
C24_Witness ==
    /\ Len(transactions) = 2
    /\ {transactions[i].type : i \in 1..2} = {"topup", "purchase"}
    /\ \A p \in Procs : pc[p] = "done"

(* C28: under any interleaving of topUpBalance and purchasePremium calls,  *)
(* started from balances of 0 or more, every user's balance stays 0 or     *)
(* more.                                                                   *)
C28_BalanceNotNegative ==
    \A u \in DOMAIN users :
        /\ users[u].balance >= 0
        /\ \A p \in Procs : u \in DOMAIN tx[p].users => tx[p].users[u].balance >= 0

\* A purchase debited a user while a top-up of the same user was in
\* flight, and both calls have ended.
C28_Witness ==
    \E p, q \in Procs :
        /\ call[p].op = "purchasePremium" /\ result[p] = "ok"
        /\ call[q].op = "topUpBalance" /\ result[q] = "ok"
        /\ call[p].a = call[q].a
        /\ pc[p] = "done" /\ pc[q] = "done"
        /\ loc[q].user # <<>> /\ loc[p].user # <<>>
        /\ loc[q].user[1].balance = loc[p].user[1].balance
        /\ users[call[p].a].balance < loc[p].user[1].balance

(* C26: of two concurrent deleteFollow calls for the same pair, at most    *)
(* one returns success:true (the one that removed the row); the other      *)
(* returns success:false and decrements nothing.                           *)
C26_OneDeleteSucceeds ==
    (SamePairCalls /\ \A p \in Procs : call[p].op = "deleteFollow") =>
        Cardinality({p \in Procs : result[p] = "success:true"}) <= 1

(* C30: concurrent createFollow(A,B) and createFollow(B,A), and likewise   *)
(* concurrent deleteFollow calls, both complete: no call waits in a cycle  *)
(* of row locks and none is aborted because of one.                        *)
C30_NoLockOrderDeadlock ==
    \A p \in Procs : ~InDeadlock(p) /\ result[p] # "deadlock detected"

(* C29: when every worker has made one successful purchasePremium call for *)
(* the same user, in any interleaving, the user's premium_expires_at is   *)
(* at least the expiry the user started with (or the time of the first     *)
(* purchase, which is 0 or later) plus the sum of the durations bought.    *)
C29_ExpirationAccumulates ==
    \A u \in UserIds :
        (/\ calls = NumProcs
         /\ \A p \in Procs : /\ call[p].op = "purchasePremium" /\ call[p].a = u
                             /\ pc[p] = "done" /\ result[p] = "ok") =>
            /\ users[u].premium_expires_at # <<>>
            /\ users[u].premium_expires_at[1] >=
                  (IF LedgerUsers[u].premium_expires_at = <<>> THEN 0
                   ELSE LedgerUsers[u].premium_expires_at[1])
                  + SumOver([p \in Procs |-> loc[p].pkg[1].duration_days], Procs)

(* C25: deletePost on an existing active post sets is_active to false and  *)
(* changes nothing else: the counters and the Like, Share and Comment rows *)
(* stay as they were.  On a missing or already deleted post it raises      *)
(* 'Post not found or already deleted' and changes nothing, so a second    *)
(* deletePost of the same post always fails.                               *)
C25_DeletePostFrame ==
    [][\A p \in Procs :
          (call[p].op = "deletePost" /\ pc[p] # "done" /\ pc'[p] = "done") =>
              LET po == call[p].b IN
              IF po \in DOMAIN posts /\ posts[po].is_active
                THEN /\ result'[p] = "success:true"
                     /\ posts' = [posts EXCEPT ![po].is_active = FALSE]
                     /\ UNCHANGED <<users, likes, follows, shares, comments,
                                    transactions, premiumPackages, notifications>>
                ELSE /\ result'[p] = "Post not found or already deleted"
                     /\ UNCHANGED dbVars
      ]_vars

\* A post with Like, Share and Comment rows was deleted by the first call,
\* and the second call for the same post has failed.
C25_Witness ==
    \E p, q \in Procs :
        /\ calls = 2
        /\ call[p].op = "deletePost" /\ call[q] = call[p]
        /\ pc[p] = "done" /\ result[p] = "success:true"
        /\ pc[q] = "done" /\ result[q] = "Post not found or already deleted"
        /\ ~posts[call[p].b].is_active
        /\ posts[call[p].b].likes_count > 0 /\ RowsWithTarget(likes, call[p].b) > 0
        /\ posts[call[p].b].shares_count > 0 /\ RowsWithTarget(shares, call[p].b) > 0
        /\ posts[call[p].b].comments_count > 0 /\ CommentsOf(call[p].b) > 0

(* C27: once deletePost of a post has committed, no createLike,            *)
(* createShare or createComment adds a row for that post or raises one of  *)
(* its counters, whatever the interleaving.                                *)
C27_NoEngagementAfterDelete ==
    [][\A po \in DOMAIN posts :
          ~posts[po].is_active =>
              /\ RowsWithTarget(likes', po) <= RowsWithTarget(likes, po)
              /\ RowsWithTarget(shares', po) <= RowsWithTarget(shares, po)
              /\ CommentsOf(po)' <= CommentsOf(po)
              /\ posts'[po].likes_count <= posts[po].likes_count
              /\ posts'[po].shares_count <= posts[po].shares_count
              /\ posts'[po].comments_count <= posts[po].comments_count
      ]_vars

====
